---- MODULE Spec2Model ----
(***************************************************************************)
(* Model of ApiHttpProvider (src/node/api/server.ts): the HTTP route       *)
(* dispatch, the login handler, the WebSocket upgrade and the per-socket   *)
(* message handler with its asynchronous connection-count queries.         *)
(*                                                                         *)
(* JavaScript values that may be undefined are modelled as sets with at    *)
(* most one element ({} is undefined).  A value of type `string | boolean` *)
(* is a record with a `type` field.                                        *)
(***************************************************************************)
EXTENDS Integers, Sequences, FiniteSets, TLC

VARIABLES
    options,      \* HttpProviderOptions: the configured (hashed) password
    credential,   \* the plaintext shared secret the options were built from
    last,         \* the most recent HTTP exchange: request, response, effects
    issued,       \* cookie values that login responses told clients to set
    auditLog,     \* number of "Failed login attempt" lines written
    sockets,      \* per raw socket: upgrade request, handshake and listener
    frames,       \* inbound WebSocket frames, in order of arrival
    pending,      \* frames whose getConnections() query is still in flight
    outbox,       \* per socket: the text frames handed to ws.send
    logged,       \* frames for which the message handler called logger.error
    rejections,   \* promise rejections that no handler caught
    connections   \* the server's current connection count

vars == <<options, credential, last, issued, auditLog, sockets, frames,
          pending, outbox, logged, rejections, connections>>

httpVars == <<last, issued, auditLog>>
wsVars == <<frames, pending, outbox, logged, rejections, connections>>

-----------------------------------------------------------------------------
(* Bounds of the model *)

MaxFrames == 2      \* inbound frames over all sockets
MaxCount == 1       \* the connection count ranges over 0..MaxCount
MaxAudit == 1       \* audit lines written before failed logins are cut off

(* Input domains *)

Credentials == {"alpha", "beta"}
Sockets == {"s1", "s2"}
Methods == {"GET", "POST"}
Bases == {"login", "applications", "files", "other"}

Unauthorized == 401

-----------------------------------------------------------------------------
(* Hashing and the Authenticator (HttpProvider.authenticated) *)

hash(s) == "sha256(" \o s \o ")"

CookieHeaders ==
    {<<>>, <<"alpha">>} \cup {<<hash(c)>> : c \in Credentials}

Field(k, v) == [key |-> k, value |-> v]

Bodies ==
    { <<>>,
      <<Field("user", "alpha")>>,
      <<Field("password", "alpha")>>,
      <<Field("password", "beta")>>,
      <<Field("password", "alpha"), Field("password", "beta")>> }

Requests == [method : Methods, cookie : CookieHeaders, data : Bodies]

False == [type |-> "boolean", value |-> ""]
String(s) == [type |-> "string", value |-> s]

NoPayload == [defined |-> FALSE, key |-> <<>>]
Payload(k) == [defined |-> TRUE, key |-> k]

parseCookies(request) == Payload(request.cookie)

safeCompare(a, b) == a = b

authenticated(request, payload) ==
    LET p == IF payload.defined THEN payload ELSE parseCookies(request)
        matching == {i \in 1..Len(p.key) : safeCompare(p.key[i], options.password)}
    IN  IF matching = {}
        THEN False
        ELSE String(p.key[CHOOSE i \in matching : \A j \in matching : i <= j])

truthy(v) == v.type = "string"

-----------------------------------------------------------------------------
(* The login handler *)

getData(request) == request.data

querystring_parse(data) ==
    LET values == SelectSeq(data, LAMBDA f : f.key = "password")
    IN  [password |->
            IF Len(values) = 0 THEN [type |-> "undefined", values |-> <<>>]
            ELSE IF Len(values) = 1
                 THEN [type |-> "string", values |-> <<values[1].value>>]
                 ELSE [type |-> "object",
                       values |-> [i \in 1..Len(values) |-> values[i].value]]]

ok_noCookie(password) ==
    [defined |-> TRUE, code |-> {}, content |-> "login:success", cookie |-> {}]

ok(password) ==
    [defined |-> TRUE,
     code    |-> {},
     content |-> "login:success",
     cookie  |-> IF password.type = "string"
                 THEN {Field("key", password.value)}
                 ELSE {}]

unauthorized ==
    [defined |-> TRUE, code |-> {Unauthorized}, content |-> "", cookie |-> {}]

noRoute ==
    [defined |-> FALSE, code |-> {}, content |-> "", cookie |-> {}]

Outcome(response, handler, audit, dataRead) ==
    [response |-> response, handler |-> handler,
     audit |-> audit, dataRead |-> dataRead]

login_plainCookie(request) ==
    LET providedPassword == authenticated(request, NoPayload)
        data == getData(request)
        payload == IF data # <<>>
                   THEN querystring_parse(data)
                   ELSE [password |-> [type |-> "undefined", values |-> <<>>]]
        password == authenticated(request,
                       Payload(IF payload.password.type = "string"
                               THEN <<hash(payload.password.values[1])>>
                               ELSE <<>>))
    IN  IF truthy(providedPassword)
        THEN Outcome(ok(providedPassword), "login", 0, FALSE)
        ELSE IF truthy(password)
             THEN Outcome(ok(String(payload.password.values[1])), "login", 0, TRUE)
             ELSE Outcome(unauthorized, "login", 1, TRUE)

login_anyPassword(request) ==
    LET providedPassword == authenticated(request, NoPayload)
        data == getData(request)
        payload == IF data # <<>>
                   THEN querystring_parse(data)
                   ELSE [password |-> [type |-> "undefined", values |-> <<>>]]
    IN  IF truthy(providedPassword)
        THEN Outcome(ok(providedPassword), "login", 0, FALSE)
        ELSE IF payload.password.type = "string"
             THEN Outcome(ok(String(hash(payload.password.values[1]))), "login", 0, TRUE)
             ELSE Outcome(unauthorized, "login", 1, TRUE)

login_shortcutNoCookie(request) ==
    LET providedPassword == authenticated(request, NoPayload)
        data == getData(request)
        payload == IF data # <<>>
                   THEN querystring_parse(data)
                   ELSE [password |-> [type |-> "undefined", values |-> <<>>]]
        password == authenticated(request,
                       Payload(IF payload.password.type = "string"
                               THEN <<hash(payload.password.values[1])>>
                               ELSE <<>>))
    IN  IF truthy(providedPassword)
        THEN Outcome(ok(False), "login", 0, FALSE)
        ELSE IF truthy(password)
             THEN Outcome(ok(password), "login", 0, TRUE)
             ELSE Outcome(unauthorized, "login", 1, TRUE)

login_arrayFirst(request) ==
    LET providedPassword == authenticated(request, NoPayload)
        data == getData(request)
        payload == IF data # <<>>
                   THEN querystring_parse(data)
                   ELSE [password |-> [type |-> "undefined", values |-> <<>>]]
        password == authenticated(request,
                       Payload(IF payload.password.type \in {"string", "object"}
                               THEN <<hash(payload.password.values[1])>>
                               ELSE <<>>))
    IN  IF truthy(providedPassword)
        THEN Outcome(ok(providedPassword), "login", 0, FALSE)
        ELSE IF truthy(password)
             THEN Outcome(ok(password), "login", 0, TRUE)
             ELSE Outcome(unauthorized, "login", 1, TRUE)

login_noAudit(request) ==
    LET providedPassword == authenticated(request, NoPayload)
        data == getData(request)
        payload == IF data # <<>>
                   THEN querystring_parse(data)
                   ELSE [password |-> [type |-> "undefined", values |-> <<>>]]
        password == authenticated(request,
                       Payload(IF payload.password.type = "string"
                               THEN <<hash(payload.password.values[1])>>
                               ELSE <<>>))
    IN  IF truthy(providedPassword)
        THEN Outcome(ok(providedPassword), "login", 0, FALSE)
        ELSE IF truthy(password)
             THEN Outcome(ok(password), "login", 0, TRUE)
             ELSE Outcome(unauthorized, "login", 0, TRUE)

login_bodyFirst(request) ==
    LET providedPassword == authenticated(request, NoPayload)
        data == getData(request)
        payload == IF data # <<>>
                   THEN querystring_parse(data)
                   ELSE [password |-> [type |-> "undefined", values |-> <<>>]]
        password == authenticated(request,
                       Payload(IF payload.password.type = "string"
                               THEN <<hash(payload.password.values[1])>>
                               ELSE <<>>))
    IN  IF truthy(password)
        THEN Outcome(ok(password), "login", 0, TRUE)
        ELSE IF truthy(providedPassword) /\ payload.password.type = "undefined"
             THEN Outcome(ok(providedPassword), "login", 0, TRUE)
             ELSE Outcome(unauthorized, "login", 1, TRUE)

login(request) ==
    LET providedPassword == authenticated(request, NoPayload)
        data == getData(request)
        payload == IF data # <<>>
                   THEN querystring_parse(data)
                   ELSE [password |-> [type |-> "undefined", values |-> <<>>]]
        password == authenticated(request,
                       Payload(IF payload.password.type = "string"
                               THEN <<hash(payload.password.values[1])>>
                               ELSE <<>>))
    IN  IF truthy(providedPassword)
        THEN Outcome(ok(providedPassword), "login", 0, FALSE)
        ELSE IF truthy(password)
             THEN Outcome(ok(password), "login", 0, TRUE)
             ELSE Outcome(unauthorized, "login", 1, TRUE)

-----------------------------------------------------------------------------
(* The resource handlers *)

files ==
    [defined |-> TRUE, code |-> {}, content |-> "files:[]", cookie |-> {}]

applications_empty ==
    [defined |-> TRUE, code |-> {}, content |-> "applications:[]", cookie |-> {}]

applications ==
    [defined |-> TRUE, code |-> {},
     content |-> "applications:[{name:VS Code,path:/vscode}]", cookie |-> {}]

-----------------------------------------------------------------------------
(* Route dispatch *)

handleRequest_filesUnguarded(base, request) ==
    IF base = "login"
    THEN IF request.method = "POST"
         THEN login(request)
         ELSE Outcome(noRoute, "none", 0, FALSE)
    ELSE IF base = "files"
         THEN Outcome(files, "files", 0, FALSE)
         ELSE IF ~truthy(authenticated(request, NoPayload))
              THEN Outcome(unauthorized, "none", 0, FALSE)
              ELSE IF base = "applications"
                   THEN Outcome(applications, "applications", 0, FALSE)
                   ELSE Outcome(noRoute, "none", 0, FALSE)

handleRequest(base, request) ==
    IF base = "login"
    THEN IF request.method = "POST"
         THEN login(request)
         ELSE Outcome(noRoute, "none", 0, FALSE)
    ELSE IF ~truthy(authenticated(request, NoPayload))
         THEN Outcome(unauthorized, "none", 0, FALSE)
         ELSE IF base = "applications"
              THEN Outcome(applications, "applications", 0, FALSE)
              ELSE IF base = "files"
                   THEN Outcome(files, "files", 0, FALSE)
                   ELSE Outcome(noRoute, "none", 0, FALSE)

NoExchange ==
    [kind |-> "none", base |-> "", request |-> [method |-> "", cookie |-> <<>>, data |-> <<>>],
     outcome |-> Outcome(noRoute, "none", 0, FALSE), jar |-> {}]

HandleRequest(base, request) ==
    LET out == handleRequest(base, request) IN
    /\ auditLog + out.audit <= MaxAudit
    /\ last' = [kind |-> "http", base |-> base, request |-> request,
                outcome |-> out, jar |-> issued]
    /\ issued' = issued \cup {c.value : c \in out.response.cookie}
    /\ auditLog' = auditLog + out.audit
    /\ UNCHANGED <<options, credential, sockets>>
    /\ UNCHANGED wsVars

-----------------------------------------------------------------------------
(* The WebSocket upgrade *)

NewSocket ==
    [state |-> "Upgrading", base |-> "", cookie |-> <<>>,
     upgradeStarted |-> FALSE, listener |-> FALSE, thrown |-> {}, returned |-> {}]

handleWebSocket_noAuth(base, request) ==
    [thrown |-> {}, upgrade |-> TRUE, returned |-> {TRUE}]

handleWebSocket_routeChecked(base, request) ==
    IF ~truthy(authenticated(request, NoPayload)) \/ base # "other"
    THEN [thrown |-> {"not authenticated"}, upgrade |-> FALSE, returned |-> {}]
    ELSE [thrown |-> {}, upgrade |-> TRUE, returned |-> {TRUE}]

handleWebSocket(base, request) ==
    IF ~truthy(authenticated(request, NoPayload))
    THEN [thrown |-> {"not authenticated"}, upgrade |-> FALSE, returned |-> {}]
    ELSE [thrown |-> {}, upgrade |-> TRUE, returned |-> {TRUE}]

HandleWebSocket(s, base, request) ==
    LET out == handleWebSocket(base, request) IN
    /\ sockets[s].state = "Upgrading"
    /\ sockets' = [sockets EXCEPT ![s] =
                      [state |-> IF out.upgrade THEN "Open" ELSE "Rejected",
                       base |-> base,
                       cookie |-> request.cookie,
                       upgradeStarted |-> out.upgrade,
                       listener |-> out.upgrade,
                       thrown |-> out.thrown,
                       returned |-> out.returned]]
    /\ UNCHANGED <<options, credential>>
    /\ UNCHANGED httpVars
    /\ UNCHANGED wsVars

TransportClose(s) ==
    /\ sockets[s].state = "Open"
    /\ sockets' = [sockets EXCEPT ![s].state = "Closed"]
    /\ UNCHANGED <<options, credential>>
    /\ UNCHANGED httpVars
    /\ UNCHANGED wsVars

-----------------------------------------------------------------------------
(* The message handler *)

Health == "{\"event\":\"health\"}"
Bogus == "{\"event\":\"bogus\"}"

FrameData == {Health, Bogus, "{\"event\":", "null", "{}"}

JSON_parse(data) ==
    IF data = Health THEN [threw |-> FALSE, type |-> "object", event |-> {"health"}]
    ELSE IF data = Bogus THEN [threw |-> FALSE, type |-> "object", event |-> {"bogus"}]
    ELSE IF data = "{}" THEN [threw |-> FALSE, type |-> "object", event |-> {}]
    ELSE IF data = "null" THEN [threw |-> FALSE, type |-> "null", event |-> {}]
    ELSE [threw |-> TRUE, type |-> "", event |-> {}]

JSON_stringify(message) ==
    "{\"event\":\"" \o message.event \o "\",\"connections\":"
        \o ToString(message.connections) \o "}"

getConnections == connections

getMessageResponse_zero(event, count) ==
    IF event = {"health"}
    THEN [rejected |-> FALSE,
          message |-> [event |-> "health", connections |-> 0]]
    ELSE [rejected |-> TRUE,
          message |-> [event |-> "", connections |-> 0]]

getMessageResponse_any(event, count) ==
    [rejected |-> FALSE,
     message |-> [event |-> "health", connections |-> count]]

getMessageResponse(event, count) ==
    IF event = {"health"}
    THEN [rejected |-> FALSE,
          message |-> [event |-> "health", connections |-> count]]
    ELSE [rejected |-> TRUE,
          message |-> [event |-> "", connections |-> 0]]

onMessage(data) ==
    LET message == JSON_parse(data) IN
    IF message.threw \/ message.type = "null"
    THEN "caught"
    ELSE IF getMessageResponse(message.event, 0).rejected
         THEN "rejected"
         ELSE "awaiting"

OnMessage_closesOnError(s, data) ==
    LET i == Len(frames) + 1
        effect == onMessage(data)
    IN
    /\ sockets[s].listener
    /\ sockets[s].state = "Open"
    /\ Len(frames) < MaxFrames
    /\ frames' = Append(frames, [socket |-> s, data |-> data])
    /\ logged' = IF effect = "caught" THEN logged \cup {i} ELSE logged
    /\ rejections' = IF effect = "rejected"
                     THEN rejections \cup {[frame |-> i, reason |-> "unexpected message"]}
                     ELSE rejections
    /\ pending' = IF effect = "awaiting" THEN pending \cup {i} ELSE pending
    /\ sockets' = IF effect = "caught"
                  THEN [sockets EXCEPT ![s].state = "Closed"]
                  ELSE sockets
    /\ UNCHANGED <<options, credential, outbox, connections>>
    /\ UNCHANGED httpVars

OnMessage(s, data) ==
    LET i == Len(frames) + 1
        effect == onMessage(data)
    IN
    /\ sockets[s].listener
    /\ sockets[s].state = "Open"
    /\ Len(frames) < MaxFrames
    /\ frames' = Append(frames, [socket |-> s, data |-> data])
    /\ logged' = IF effect = "caught" THEN logged \cup {i} ELSE logged
    /\ rejections' = IF effect = "rejected"
                     THEN rejections \cup {[frame |-> i, reason |-> "unexpected message"]}
                     ELSE rejections
    /\ pending' = IF effect = "awaiting" THEN pending \cup {i} ELSE pending
    /\ UNCHANGED <<options, credential, sockets, outbox, connections>>
    /\ UNCHANGED httpVars

send_broadcast(s, i, event) ==
    IF sockets[s].state = "Open"
    THEN /\ outbox' = [t \in Sockets |->
                          IF sockets[t].state = "Open"
                          THEN Append(outbox[t],
                                      [text |-> JSON_stringify(event), cause |-> i])
                          ELSE outbox[t]]
         /\ UNCHANGED rejections
    ELSE /\ rejections' = rejections \cup
                             {[frame |-> i, reason |-> "WebSocket is not open"]}
         /\ UNCHANGED outbox

send(s, i, event) ==
    IF sockets[s].state = "Open"
    THEN /\ outbox' = [outbox EXCEPT ![s] =
                          Append(@, [text |-> JSON_stringify(event), cause |-> i])]
         /\ UNCHANGED rejections
    ELSE /\ rejections' = rejections \cup
                             {[frame |-> i, reason |-> "WebSocket is not open"]}
         /\ UNCHANGED outbox

GetConnectionsDone(i) ==
    /\ i \in pending
    /\ pending' = pending \ {i}
    /\ send(frames[i].socket, i,
            getMessageResponse(JSON_parse(frames[i].data).event, getConnections).message)
    /\ UNCHANGED <<options, credential, sockets, frames, logged, connections>>
    /\ UNCHANGED httpVars

ConnectionCountChange(n) ==
    /\ n # connections
    /\ connections' = n
    /\ UNCHANGED <<options, credential, sockets, frames, pending, outbox,
                   logged, rejections>>
    /\ UNCHANGED httpVars

-----------------------------------------------------------------------------
(* Specifications *)

Init ==
    /\ credential \in Credentials
    /\ options = [password |-> hash(credential)]
    /\ last = NoExchange
    /\ issued = {}
    /\ auditLog = 0
    /\ sockets = [s \in Sockets |-> NewSocket]
    /\ frames = <<>>
    /\ pending = {}
    /\ outbox = [s \in Sockets |-> <<>>]
    /\ logged = {}
    /\ rejections = {}
    /\ connections \in 0..MaxCount

UpgradeRequests == {r \in Requests : r.method = "GET" /\ r.data = <<>>}

Next ==
    \/ \E request \in Requests : HandleRequest("login", request)
    \/ \E base \in Bases \ {"login"}, request \in Requests :
          request.data = <<>> /\ HandleRequest(base, request)
    \/ \E base \in Bases, request \in UpgradeRequests :
          HandleWebSocket("s1", base, request)

Spec == Init /\ [][Next]_vars

NextWs ==
    \/ \E s \in Sockets, request \in UpgradeRequests :
          HandleWebSocket(s, "other", request)
    \/ \E s \in Sockets, data \in FrameData : OnMessage(s, data)
    \/ \E i \in 1..MaxFrames : GetConnectionsDone(i)
    \/ \E s \in Sockets : TransportClose(s)
    \/ \E n \in 0..MaxCount : ConnectionCountChange(n)

SpecWs == Init /\ [][NextWs]_vars

-----------------------------------------------------------------------------
(* Vocabulary of the properties *)

ValidCookie(cookie) == \E i \in 1..Len(cookie) : cookie[i] = hash(credential)

IsLoginPost == last.kind = "http" /\ last.base = "login" /\ last.request.method = "POST"

Submitted == querystring_parse(last.request.data).password

SubmitsCredential == Submitted.type = "string" /\ Submitted.values[1] = credential

Handled(s) == sockets[s].state # "Upgrading"

FrameIds == 1..Len(frames)

IsHealth(i) == frames[i].data = Health

Causes(s) == {outbox[s][k].cause : k \in 1..Len(outbox[s])}

Answers(s, i) == {k \in 1..Len(outbox[s]) : outbox[s][k].cause = i}

Dropped(i) == [frame |-> i, reason |-> "WebSocket is not open"] \in rejections

HealthText(n) == "{\"event\":\"health\",\"connections\":" \o ToString(n) \o "}"

-----------------------------------------------------------------------------
(* C1: a request to `applications` or `files` without a valid `key` cookie *)
(* is answered with exactly the 401 status and runs no resource handler;   *)
(* a resource handler has run only for a request the Authenticator         *)
(* accepted.                                                               *)
C1_UnauthorizedWithoutCookie ==
    /\ (last.kind = "http" /\ last.base \in {"applications", "files"}
            /\ ~ValidCookie(last.request.cookie))
         => (last.outcome.response = unauthorized /\ last.outcome.handler = "none")
    /\ last.outcome.handler \in {"applications", "files"}
         => truthy(authenticated(last.request, NoPayload))

C1_Witness ==
    /\ last.kind = "http" /\ last.base = "files"
    /\ last.request.cookie = <<credential>>
    /\ last.outcome.response.code = {Unauthorized}
    /\ last.outcome.handler = "none"

(* C2: an upgrade request without a valid cookie never completes the       *)
(* handshake: handleWebSocket throws "not authenticated", ws.handleUpgrade *)
(* is not started, no message listener is attached, no frame is received   *)
(* from the socket and none is sent on it.                                 *)
C2_UnauthenticatedUpgradeRejected ==
    \A s \in Sockets :
        (Handled(s) /\ ~ValidCookie(sockets[s].cookie)) =>
            /\ sockets[s].state = "Rejected"
            /\ sockets[s].thrown = {"not authenticated"}
            /\ sockets[s].returned = {}
            /\ ~sockets[s].upgradeStarted
            /\ ~sockets[s].listener
            /\ outbox[s] = <<>>
            /\ \A i \in FrameIds : frames[i].socket # s

C2_Witness ==
    \E s, t \in Sockets :
        /\ sockets[s].state = "Rejected"
        /\ sockets[s].cookie = <<credential>>
        /\ sockets[t].state = "Open"
        /\ outbox[t] # <<>>

(* C3: a POST to `login` with the valid credential as password succeeds    *)
(* and sets a `key` cookie, and every later request (login, applications,  *)
(* files or WebSocket upgrade) that carries a cookie value issued by a     *)
(* login response is accepted by the Authenticator.                        *)
C3_LoginSucceeds ==
    (IsLoginPost /\ last.request.data = <<Field("password", credential)>>) =>
        /\ last.outcome.response.code = {}
        /\ last.outcome.response.content = "login:success"
        /\ last.outcome.response.cookie # {}
        /\ \A c \in last.outcome.response.cookie : c.key = "key"

C3_IssuedCookieAccepted ==
    (last.kind = "http" /\ Len(last.request.cookie) = 1
        /\ last.request.cookie[1] \in last.jar) =>
        /\ truthy(authenticated(last.request, NoPayload))
        /\ last.outcome.response.code = {}
        /\ IsLoginPost => last.outcome.response.content = "login:success"
        /\ last.base \in {"applications", "files"} => last.outcome.handler = last.base

C3_IssuedCookieUpgrades ==
    \A s \in Sockets :
        (/\ sockets[s].state = "Upgrading"
         /\ sockets'[s].state # "Upgrading"
         /\ Len(sockets'[s].cookie) = 1
         /\ sockets'[s].cookie[1] \in issued)
        => (sockets'[s].state = "Open" /\ sockets'[s].returned = {TRUE})

C3_LoginRoundTrip ==
    /\ [](C3_LoginSucceeds /\ C3_IssuedCookieAccepted)
    /\ [][C3_IssuedCookieUpgrades]_vars

C3_Witness ==
    /\ last.kind = "http" /\ last.base = "files"
    /\ Len(last.request.cookie) = 1
    /\ last.request.cookie[1] \in last.jar
    /\ last.outcome.handler = "files"
    /\ sockets["s1"].state = "Open"
    /\ sockets["s1"].cookie[1] \in issued

(* C4, as stated: a login request whose submitted password is anything     *)
(* other than the valid credential returns 401 and sets no cookie.         *)
C4_WrongPasswordUnauthorized ==
    (IsLoginPost /\ ~SubmitsCredential) => last.outcome.response = unauthorized

(* C4, amended: a login request that carries no valid `key` cookie and     *)
(* whose submitted password is anything other than the valid credential    *)
(* returns 401 and sets no cookie.                                         *)
C4_WrongPasswordNoCookieUnauthorized ==
    (IsLoginPost /\ ~ValidCookie(last.request.cookie) /\ ~SubmitsCredential) =>
        /\ last.outcome.response.code = {Unauthorized}
        /\ last.outcome.response.cookie = {}
        /\ last.outcome.response = unauthorized

C4_Witness ==
    /\ IsLoginPost
    /\ last.request.cookie = <<>>
    /\ Submitted.type = "string" /\ Submitted.values[1] # credential
    /\ last.outcome.response.code = {Unauthorized}
    /\ last.outcome.response.cookie = {}

(* C5: every `health` frame received on an open connection causes exactly  *)
(* one outbound frame, on that connection, once its connection-count query *)
(* completes while the connection is still open (until then the query is   *)
(* pending; after a transport close the response is not delivered); the    *)
(* frame is {event:"health", connections:N} with N the connection count at *)
(* the moment of the send.                                                 *)
C5_OneResponsePerHealth ==
    \A i \in FrameIds :
        LET s == frames[i].socket IN
        /\ Cardinality(Answers(s, i)) <= 1
        /\ \A t \in Sockets \ {s} : Answers(t, i) = {}
        /\ IsHealth(i) =>
              \/ i \in pending /\ Answers(s, i) = {} /\ ~Dropped(i)
              \/ i \notin pending /\ Cardinality(Answers(s, i)) = 1 /\ ~Dropped(i)
              \/ i \notin pending /\ Answers(s, i) = {} /\ Dropped(i)
                    /\ sockets[s].state = "Closed"

C5_CountAtSendTime ==
    \A s \in Sockets :
        outbox'[s] # outbox[s] =>
            /\ Len(outbox'[s]) = Len(outbox[s]) + 1
            /\ SubSeq(outbox'[s], 1, Len(outbox[s])) = outbox[s]
            /\ outbox'[s][Len(outbox'[s])].text = HealthText(connections)
            /\ sockets[s].state = "Open"

C6_ResponsesInArrivalOrder ==
    \A s \in Sockets :
        \A j, k \in 1..Len(outbox[s]) :
            j < k => outbox[s][j].cause < outbox[s][k].cause

(* C7: a frame that is malformed JSON, has an invalid shape or names an    *)
(* event other than "health" causes no outbound frame and no query, and    *)
(* receiving it leaves the connection Open with its listener attached, so  *)
(* that a later health frame on that connection is still taken up.         *)
C7_BadFrameIgnored ==
    \A i \in FrameIds :
        ~IsHealth(i) =>
            /\ i \notin pending
            /\ \A s \in Sockets : Answers(s, i) = {}
            /\ \A j \in FrameIds :
                  (j > i /\ frames[j].socket = frames[i].socket /\ IsHealth(j)) =>
                      \/ j \in pending
                      \/ Answers(frames[j].socket, j) # {}
                      \/ Dropped(j)

C7_ConnectionStaysOpen ==
    Len(frames') > Len(frames) =>
        /\ sockets' = sockets
        /\ sockets'[frames'[Len(frames')].socket].state = "Open"
        /\ sockets'[frames'[Len(frames')].socket].listener
        /\ outbox' = outbox
        /\ frames'[Len(frames')].data # Health => pending' = pending

C7_BadFrameHarmless ==
    /\ []C7_BadFrameIgnored
    /\ [][C7_ConnectionStaysOpen]_vars

C7_Witness ==
    \E s \in Sockets :
        /\ Len(frames) = 2
        /\ frames[1] = [socket |-> s, data |-> Bogus]
        /\ frames[2] = [socket |-> s, data |-> Health]
        /\ sockets[s].state = "Open"
        /\ Len(outbox[s]) = 1
        /\ outbox[s][1].cause = 2

(* C8: every failure raised while processing an inbound frame (JSON parse  *)
(* failure, invalid shape, unknown event name) is caught by the message    *)
(* handler and logged, and none escapes as an unhandled promise rejection. *)
C8_FrameFailuresHandledLocally ==
    \A i \in FrameIds :
        ~IsHealth(i) =>
            /\ i \in logged
            /\ \A r \in rejections : r.frame # i

(* C9: `login` with a non-POST method and every route outside the route    *)
(* table yield "no route" (undefined), with or without a valid cookie.     *)
C9_UnlistedRouteFallsThrough ==
    (last.kind = "http"
        /\ \/ last.base = "login" /\ last.request.method # "POST"
           \/ last.base \notin {"login", "applications", "files"})
    => last.outcome.response = noRoute

C11_ShortcutSetsNoCookie ==
    (IsLoginPost /\ ValidCookie(last.request.cookie)) =>
        /\ last.outcome.response.content = "login:success"
        /\ last.outcome.response.cookie = {}

(* C11, amended: when the Authenticator accepts the existing cookie of a   *)
(* login request, the response is success and its cookie-set instruction   *)
(* sets `key` again to the value the request already carried; no new value *)
(* is issued.                                                              *)
C11_ShortcutResetsSameCookie ==
    (IsLoginPost /\ ValidCookie(last.request.cookie)) =>
        /\ last.outcome.response.code = {}
        /\ last.outcome.response.content = "login:success"
        /\ \E i \in 1..Len(last.request.cookie) :
              last.outcome.response.cookie = {Field("key", last.request.cookie[i])}
        /\ issued \subseteq last.jar \cup {hash(credential)}

C11_Witness ==
    /\ IsLoginPost
    /\ last.request.cookie = <<hash(credential)>>
    /\ last.request.data = <<>>
    /\ ~last.outcome.dataRead
    /\ last.outcome.response.cookie = {Field("key", hash(credential))}

(* C12, as stated: a login whose `password` field is submitted as several  *)
(* values (an array), even if one of them is the correct password, is      *)
(* treated as having no password and fails (401, no cookie).               *)
C12_ArrayPasswordFails ==
    (IsLoginPost /\ Submitted.type = "object") => last.outcome.response = unauthorized

(* C12, amended: a login that carries no valid `key` cookie and whose      *)
(* `password` field is submitted as several values (an array), even if one *)
(* of them is the correct password, is treated as having no password and   *)
(* fails (401, no cookie).                                                 *)
C12_ArrayPasswordNoCookieFails ==
    (IsLoginPost /\ ~ValidCookie(last.request.cookie) /\ Submitted.type = "object") =>
        /\ last.outcome.response.code = {Unauthorized}
        /\ last.outcome.response.cookie = {}
        /\ last.outcome.response.content = ""

C12_Witness ==
    /\ IsLoginPost
    /\ last.request.cookie = <<>>
    /\ Submitted.type = "object"
    /\ Submitted.values[1] = credential
    /\ last.outcome.response.code = {Unauthorized}
    /\ last.outcome.response.cookie = {}

(* C13: every login request that fails to match (neither its cookie nor a  *)
(* single submitted password matches: body missing, field missing or hash  *)
(* mismatch) writes exactly one audit entry and responds 401 with no       *)
(* cookie; an audit entry is written only by a login request that responds *)
(* 401, never by a successful login, a resource request or an upgrade.     *)
C13_FailedLoginAudited ==
    /\ (IsLoginPost /\ ~ValidCookie(last.request.cookie) /\ ~SubmitsCredential) =>
          /\ last.outcome.audit = 1
          /\ last.outcome.response = unauthorized
    /\ last.outcome.audit # 0 =>
          /\ IsLoginPost
          /\ last.outcome.audit = 1
          /\ last.outcome.response.code = {Unauthorized}
          /\ last.outcome.response.cookie = {}

C13_AuditOnlyByFailedLogin ==
    auditLog' # auditLog =>
          /\ auditLog' = auditLog + 1
          /\ last'.kind = "http" /\ last'.base = "login"
          /\ last'.request.method = "POST"
          /\ last'.outcome.audit = 1
          /\ last'.outcome.response = unauthorized
          /\ sockets' = sockets

C13_AuditTrail ==
    /\ []C13_FailedLoginAudited
    /\ [][C13_AuditOnlyByFailedLogin]_vars

C13_Witness ==
    /\ auditLog = MaxAudit
    /\ IsLoginPost
    /\ last.request.data = <<>>
    /\ last.outcome.audit = 1
    /\ last.outcome.response.code = {Unauthorized}
    /\ sockets["s1"].state = "Open"

(* C15: once authentication has passed, `applications` and `files` always  *)
(* succeed: `applications` returns a listing with the fixed entry          *)
(* {name:"VS Code", path:"/vscode"}, `files` returns an empty listing, and *)
(* neither changes any server state.                                       *)
C15_ResourceSucceeds ==
    (last.kind = "http" /\ last.base \in {"applications", "files"}
        /\ ValidCookie(last.request.cookie)) =>
        /\ last.outcome.response.defined
        /\ last.outcome.response.code = {}
        /\ last.outcome.response.cookie = {}
        /\ last.outcome.audit = 0
        /\ last.base = "applications" =>
              last.outcome.response.content = "applications:[{name:VS Code,path:/vscode}]"
        /\ last.base = "files" => last.outcome.response.content = "files:[]"

C15_ResourceChangesNothing ==
    (last'.kind = "http" /\ last'.base \in {"applications", "files"} /\ last' # last) =>
        /\ issued' = issued
        /\ auditLog' = auditLog
        /\ sockets' = sockets
        /\ options' = options

C15_ResourceHandlers ==
    /\ []C15_ResourceSucceeds
    /\ [][C15_ResourceChangesNothing]_vars

C15_Witness ==
    /\ last.kind = "http" /\ last.base = "applications"
    /\ last.request.cookie = <<hash(credential)>>
    /\ last.outcome.handler = "applications"
    /\ last.outcome.response.content = "applications:[{name:VS Code,path:/vscode}]"
    /\ auditLog = 1

(* C18: a POST to `login` that carries a valid cookie succeeds without the *)
(* request body being read: the response is the same success response      *)
(* whatever the body holds (missing, wrong password, array-valued          *)
(* password), and no audit entry is written.                               *)
C18_ShortcutIgnoresBody ==
    (IsLoginPost /\ ValidCookie(last.request.cookie)) =>
        /\ ~last.outcome.dataRead
        /\ last.outcome.audit = 0
        /\ last.outcome.response =
              [defined |-> TRUE, code |-> {}, content |-> "login:success",
               cookie |-> {Field("key", hash(credential))}]

C18_NoAuditOnShortcut ==
    (last' # last /\ last'.kind = "http" /\ last'.base = "login"
        /\ last'.request.method = "POST" /\ ValidCookie(last'.request.cookie))
    => auditLog' = auditLog

C18_ShortcutSkipsBody ==
    /\ []C18_ShortcutIgnoresBody
    /\ [][C18_NoAuditOnShortcut]_vars

C18_Witness ==
    /\ IsLoginPost
    /\ last.request.cookie = <<hash(credential)>>
    /\ Submitted.type = "string" /\ Submitted.values[1] # credential
    /\ last.outcome.response.content = "login:success"
    /\ ~last.outcome.dataRead

(* C19: handleWebSocket does not consult the route identifier: for every   *)
(* value of base an upgrade request with a valid cookie is upgraded and    *)
(* gets its message listener, and one without a valid cookie is rejected.  *)
C19_UpgradeIgnoresBase ==
    \A s \in Sockets :
        Handled(s) =>
            /\ sockets[s].base \in Bases
            /\ ValidCookie(sockets[s].cookie) =>
                  /\ sockets[s].state = "Open"
                  /\ sockets[s].upgradeStarted /\ sockets[s].listener
                  /\ sockets[s].returned = {TRUE} /\ sockets[s].thrown = {}
            /\ ~ValidCookie(sockets[s].cookie) =>
                  /\ sockets[s].state = "Rejected"
                  /\ ~sockets[s].upgradeStarted /\ ~sockets[s].listener
                  /\ sockets[s].thrown = {"not authenticated"}

C19_Witness ==
    /\ sockets["s1"].base = "login"
    /\ sockets["s1"].cookie = <<hash(credential)>>
    /\ sockets["s1"].state = "Open"
    /\ sockets["s1"].listener

(* C14: every connection follows Upgrading -> Open -> Closed or            *)
(* Upgrading -> Rejected: Open is entered only from Upgrading with an      *)
(* accepted cookie, Rejected only from Upgrading with a refused one,       *)
(* Rejected and Closed are never left, and Open -> Closed is taken only by *)
(* a transport close, never as part of handling a frame or a query result. *)
C14_States ==
    \A s \in Sockets :
        /\ sockets[s].state \in {"Upgrading", "Open", "Closed", "Rejected"}
        /\ sockets[s].state \in {"Open", "Closed"} => ValidCookie(sockets[s].cookie)
        /\ sockets[s].state = "Rejected" => ~ValidCookie(sockets[s].cookie)

C14_Transitions ==
    \A s \in Sockets :
        sockets'[s].state # sockets[s].state =>
            \/ /\ sockets[s].state = "Upgrading"
               /\ sockets'[s].state = "Open"
               /\ ValidCookie(sockets'[s].cookie)
            \/ /\ sockets[s].state = "Upgrading"
               /\ sockets'[s].state = "Rejected"
               /\ ~ValidCookie(sockets'[s].cookie)
            \/ /\ sockets[s].state = "Open"
               /\ sockets'[s].state = "Closed"
               /\ UNCHANGED <<frames, pending, outbox, logged, rejections>>

C14_Lifecycle ==
    /\ []C14_States
    /\ [][C14_Transitions]_vars

C14_Witness ==
    \E s, t \in Sockets :
        /\ sockets[s].state = "Closed"
        /\ sockets[t].state = "Rejected"
        /\ Len(frames) = 2
        /\ frames[1] = [socket |-> s, data |-> "null"]
        /\ frames[2] = [socket |-> s, data |-> Bogus]

(* C16: no outbound frame is sent on a connection that is Closed, and a    *)
(* response whose connection-count query completes after the transport has *)
(* closed is dropped without raising an unhandled fault.                   *)
C16_NoFaultAfterClose ==
    \A r \in rejections : r.reason # "WebSocket is not open"

C16_NoSendAfterClose ==
    \A s \in Sockets : sockets[s].state = "Closed" => outbox'[s] = outbox[s]

C17_ResponsesStayOnTheirConnection ==
    \A s \in Sockets :
        /\ \A k \in 1..Len(outbox[s]) :
              /\ outbox[s][k].cause \in FrameIds
              /\ frames[outbox[s][k].cause].socket = s
              /\ IsHealth(outbox[s][k].cause)
        /\ Len(outbox[s]) <=
              Cardinality({i \in FrameIds : frames[i].socket = s /\ IsHealth(i)})

C17_Witness ==
    \E s, t \in Sockets :
        /\ s # t
        /\ Len(frames) = 2
        /\ frames[1] = [socket |-> s, data |-> Health]
        /\ frames[2] = [socket |-> t, data |-> Health]
        /\ pending = {1}
        /\ outbox[s] = <<>>
        /\ Len(outbox[t]) = 1
        /\ outbox[t][1].cause = 2

====
